---- MODULE Spec2Model ----
(***************************************************************************)
(* Model of protoc.py, the SCons tool that registers the ProtocCPP,        *)
(* ProtocPython and ProtocJava builders.                                   *)
(*                                                                         *)
(* Strings are sequences of one-character strings, so that                 *)
(* os.path.commonprefix, slicing, os.path.splitext and os.path.join work   *)
(* on characters as they do in the source.  A list of strings (a CLVar, a  *)
(* target list, a command line) is a sequence of such sequences.           *)
(* A construction variable of the environment is a set: {} when the key    *)
(* is absent (a lookup raises KeyError), {v} when it holds v.              *)
(***************************************************************************)
EXTENDS Integers, Sequences, FiniteSets, TLC

VARIABLES env, builders, prev_env, prev_builders, last_op, call,
          target, source, cmd, nGenerate, nSetVar, nEmit

vars == <<env, builders, prev_env, prev_builders, last_op, call,
          target, source, cmd, nGenerate, nSetVar, nEmit>>

\* ------------------------------------------------------------------ bounds
MaxGenerate == 2
MaxSetVar == 2
MaxEmit == 2
MaxSources == 2

\* ------------------------------------------------------- string literals
protocs == <<"p", "r", "o", "t", "o", "c">>
custom_protoc == <<"p", "r", "o", "t", "o", "c", "3">>
os_sep == <<"/">>
sfx_proto == <<".", "p", "r", "o", "t", "o">>
sfx_pb_cc == <<".", "p", "b", ".", "c", "c">>
sfx_pb_h == <<".", "p", "b", ".", "h">>
sfx_pb2_py == <<"_", "p", "b", "2", ".", "p", "y">>
sfx_pb2_java == <<"_", "p", "b", "2", ".", "j", "a", "v", "a">>
opt_I == <<"-", "I">>
opt_o == <<"-", "o">>
cpp_out == <<"-", "-", "c", "p", "p", "_", "o", "u", "t", "=">>
python_out == <<"-", "-", "p", "y", "t", "h", "o", "n", "_", "o", "u", "t", "=">>
java_out == <<"-", "-", "j", "a", "v", "a", "_", "o", "u", "t", "=">>
cpp_out_custom == <<"-", "-", "c", "p", "p", "_", "o", "u", "t", "=", "l", "i", "t", "e", ":">>
python_out_custom == <<"-", "-", "p", "y", "t", "h", "o", "n", "_", "o", "u", "t", "=", "p", "y", "i", "_", "o", "u", "t", ":">>
java_out_custom == <<"-", "-", "j", "a", "v", "a", "_", "o", "u", "t", "=", "l", "i", "t", "e", ":">>
SOURCE_dir == <<"$", "{", "S", "O", "U", "R", "C", "E", ".", "d", "i", "r", "}">>
dir_python == <<"p", "y", "t", "h", "o", "n">>
dir_java == <<"j", "a", "v", "a">>
dir_gen == <<"g", "e", "n">>
inc == <<"i", "n", "c">>
flag_custom == <<"-", "-", "f", "a", "t", "a", "l", "_", "w", "a", "r", "n", "i", "n", "g", "s">>
fds_path == <<"a", "l", "l", ".", "d", "e", "s", "c">>
sfx_custom == <<".", "p", "b">>
p_foo_bar == <<"f", "o", "o", "/", "b", "a", "r", ".", "p", "r", "o", "t", "o">>
p_foobar_baz == <<"f", "o", "o", "b", "a", "r", "/", "b", "a", "z", ".", "p", "r", "o", "t", "o">>
p_foo_sub_c == <<"f", "o", "o", "/", "s", "u", "b", "/", "c", ".", "p", "r", "o", "t", "o">>
d_top == <<".">>
d_foo == <<"f", "o", "o">>
user_target == <<"x", ".", "o", "u", "t">>

\* ------------------------------------------------------------ input sets
\* src.srcnode().path of the source files a build description passes
SrcPaths == {p_foo_bar, p_foobar_baz, p_foo_sub_c}

\* Dir('.').srcnode().path of the calling SConscript ("." at the top level)
ScriptDirs == {d_top, d_foo}

\* source lists of one invocation: 0 .. MaxSources different files
SourceLists ==
    {ss \in UNION {[1..n -> SrcPaths] : n \in 0..MaxSources} :
        \A i, j \in 1..Len(ss) : i # j => ss[i] # ss[j]}

\* the (target, source) arguments of one builder call: no target named, or
\* one target named for at most one source file
CallArgs ==
    {<<<<>>, ss>> : ss \in SourceLists}
        \cup {<<<<user_target>>, ss>> : ss \in {q \in SourceLists : Len(q) <= 1}}

Langs == {"cpp", "python", "java"}

\* ------------------------------------------------------- string helpers
\* s[n:]
Drop(s, n) == SubSeq(s, n + 1, Len(s))

\* s[:n]
Take(s, n) == SubSeq(s, 1, n)

StartsWith(s, p) == Len(p) <= Len(s) /\ Take(s, Len(p)) = p

EndsWith(s, p) == Len(p) <= Len(s) /\ Drop(s, Len(s) - Len(p)) = p

\* s.rfind(c): the last index (1-based) of character c in s, 0 when absent
RFind(s, c) ==
    LET hits == {i \in 1..Len(s) : s[i] = c}
    IN  IF hits = {} THEN 0 ELSE CHOOSE i \in hits : \A j \in hits : j <= i

\* os.path.commonprefix([a, b]): the longest common leading substring,
\* compared character by character
commonprefix(a, b) ==
    LET m == IF Len(a) < Len(b) THEN Len(a) ELSE Len(b)
        agree == {n \in 0..m : \A i \in 1..n : a[i] = b[i]}
    IN  Take(a, CHOOSE n \in agree : \A k \in agree : k <= n)

\* os.path.splitext(p)[0]: the extension starts at the last dot of the last
\* component, unless only dots precede it in that component
splitext0(p) ==
    LET sepIndex == RFind(p, "/")
        dotIndex == RFind(p, ".")
    IN  IF dotIndex > sepIndex
             /\ \E i \in (sepIndex + 1)..(dotIndex - 1) : p[i] # "."
        THEN Take(p, dotIndex - 1)
        ELSE p

\* os.path.join(a, b) of posixpath
join(a, b) ==
    IF StartsWith(b, os_sep) THEN b
    ELSE IF a = <<>> \/ EndsWith(a, os_sep) THEN a \o b
    ELSE a \o os_sep \o b

\* ------------------------------------------------ construction variables
\* the keys generate assigns a default to, in the order it assigns them
SeededKeys == {"PROTOC", "PROTOCFLAGS", "PROTOCPROTOPATH", "PROTOCCOM_START",
               "PROTOCCOM_END", "PROTOCOUTDIR", "PROTOCPYTHONOUTDIR",
               "PROTOCJAVAOUTDIR", "PROTOCJAVAFLAG", "PROTOCPYTHONFLAG",
               "PROTOCCPPFLAG", "PROTOCSRCSUFFIX"}

\* PROTOCFDSOUT is read by the emitter and the command, never set by generate
Keys == SeededKeys \cup {"PROTOCFDSOUT"}

\* '$PROTOC ${["-I%s"%x for x in PROTOCPROTOPATH]} $PROTOCFLAGS
\*  ${PROTOCFDSOUT and ("-o"+PROTOCFDSOUT) or ""}', one token per reference
PROTOCCOM_START == <<"$PROTOC", "${-I PROTOCPROTOPATH}", "$PROTOCFLAGS",
                     "${-o PROTOCFDSOUT}">>

PROTOCCOM_END == <<"${SOURCES}">>

\* a flag template lit${var}
PROTOCJAVAFLAG == [lit |-> java_out, var |-> "PROTOCJAVAOUTDIR"]
PROTOCPYTHONFLAG == [lit |-> python_out, var |-> "PROTOCPYTHONOUTDIR"]
PROTOCCPPFLAG == [lit |-> cpp_out, var |-> "PROTOCOUTDIR"]

\* env.Detect(protocs): the program name when it is on the path, else None
DetectResults == {{}, {protocs}}

\* the value generate assigns to key k
Default(k, detected) ==
    CASE k = "PROTOC" -> IF detected # {} THEN CHOOSE v \in detected : TRUE
                         ELSE protocs
      [] k = "PROTOCFLAGS" -> <<>>
      [] k = "PROTOCPROTOPATH" -> <<>>
      [] k = "PROTOCCOM_START" -> PROTOCCOM_START
      [] k = "PROTOCCOM_END" -> PROTOCCOM_END
      [] k = "PROTOCOUTDIR" -> SOURCE_dir
      [] k = "PROTOCPYTHONOUTDIR" -> dir_python
      [] k = "PROTOCJAVAOUTDIR" -> dir_java
      [] k = "PROTOCJAVAFLAG" -> PROTOCJAVAFLAG
      [] k = "PROTOCPYTHONFLAG" -> PROTOCPYTHONFLAG
      [] k = "PROTOCCPPFLAG" -> PROTOCCPPFLAG
      [] k = "PROTOCSRCSUFFIX" -> sfx_proto

\* the values a build description assigns to a key
UserValues(k) ==
    CASE k = "PROTOC" -> {custom_protoc}
      [] k = "PROTOCFLAGS" -> {<<flag_custom>>}
      [] k = "PROTOCPROTOPATH" -> {<<inc>>}
      [] k = "PROTOCOUTDIR" -> {dir_gen}
      [] k = "PROTOCPYTHONOUTDIR" -> {dir_gen}
      [] k = "PROTOCJAVAOUTDIR" -> {dir_gen}
      [] k = "PROTOCJAVAFLAG" -> {[lit |-> java_out_custom, var |-> "PROTOCJAVAOUTDIR"]}
      [] k = "PROTOCPYTHONFLAG" -> {[lit |-> python_out_custom, var |-> "PROTOCPYTHONOUTDIR"]}
      [] k = "PROTOCCPPFLAG" -> {[lit |-> cpp_out_custom, var |-> "PROTOCOUTDIR"]}
      [] k = "PROTOCSRCSUFFIX" -> {sfx_custom}
      [] k = "PROTOCFDSOUT" -> {<<>>, fds_path}
      [] OTHER -> {}

UserKeys == {k \in Keys : UserValues(k) # {}}

\* env[k] of a key that is present
Val(e, k) == CHOOSE v \in e[k] : TRUE

\* ------------------------------------------------------------- builders
BuilderNames == {"ProtocCPP", "ProtocPython", "ProtocJava"}

_builder_dict == [key \in BuilderNames |->
    CASE key = "ProtocCPP" -> "ProtocCPPBuilder"
      [] key = "ProtocPython" -> "ProtocPythonBuilder"
      [] key = "ProtocJava" -> "ProtocJavaBuilder"]

\* a builder the build description registers itself under one of the names
UserBuilders == {"CustomBuilder"}

\* a registration that installs this tool's builder under every name
RegisterBuilders_overwrite(b) ==
    [key \in BuilderNames |-> {_builder_dict[key]}]

\* generate, first loop: a name already in env['BUILDERS'] keeps its builder
RegisterBuilders(b) ==
    [key \in BuilderNames |->
        IF b[key] # {} THEN b[key] ELSE {_builder_dict[key]}]

\* a seeding that assigns a default only to a key that is absent
SeedDefaults_ifAbsent(e, detected) ==
    [k \in Keys |-> IF k \in SeededKeys /\ e[k] = {}
                     THEN {Default(k, detected)} ELSE e[k]]

\* generate, the assignments after the loop
SeedDefaults(e, detected) ==
    [k \in Keys |-> IF k \in SeededKeys THEN {Default(k, detected)} ELSE e[k]]

\* -------------------------------------------------------------- emitter
\* env.PrependUnique: val goes in front unless the list already holds it
Prepend_unique(e, key, val) ==
    [e EXCEPT ![key] =
        IF e[key] = {} THEN {<<val>>}
        ELSE IF \E i \in 1..Len(Val(e, key)) : Val(e, key)[i] = val
             THEN e[key]
             ELSE {<<val>> \o Val(e, key)}]

\* env.Prepend(key = val) on a list-valued variable: val goes in front,
\* whether or not it is already in the list
Prepend(e, key, val) ==
    [e EXCEPT ![key] = IF e[key] = {} THEN {<<val>>}
                       ELSE {<<val>> \o Val(e, key)}]

\* a slice that starts right after the prefix, keeping the separator
CorrectedPath_noSep(dir, src) ==
    LET prefix == commonprefix(dir, src)
    IN  IF Len(prefix) > 0
        THEN Drop(src, Len(prefix))
        ELSE src

\* lines 64-71: the source path with the prefix it shares with the calling
\* SConscript's directory, and one more separator's length, cut off
CorrectedPath(dir, src) ==
    LET prefix == commonprefix(dir, src)
    IN  IF Len(prefix) > 0
        THEN Drop(src, Len(prefix \o os_sep))
        ELSE src

\* the key holding the output directory of a language
OutDirKey(output_lang) ==
    CASE output_lang = "cpp" -> "PROTOCOUTDIR"
      [] output_lang = "python" -> "PROTOCPYTHONOUTDIR"
      [] output_lang = "java" -> "PROTOCJAVAOUTDIR"

\* outputs named after the source with its extension left in place, and the
\* header before the implementation file
Outputs_keepExt(e, src, output_lang) ==
    LET base == join(Val(e, OutDirKey(output_lang)), src)
    IN  CASE output_lang = "cpp" -> <<base \o sfx_pb_h, base \o sfx_pb_cc>>
          [] output_lang = "python" -> <<base \o sfx_pb2_py>>
          [] output_lang = "java" -> <<base \o sfx_pb2_java>>

\* lines 76-86: the targets one (corrected) source adds
Outputs(e, src, output_lang) ==
    LET modulename == splitext0(src)
        base == join(Val(e, OutDirKey(output_lang)), modulename)
    IN  CASE output_lang = "cpp" -> <<base \o sfx_pb_cc, base \o sfx_pb_h>>
          [] output_lang = "python" -> <<base \o sfx_pb2_py>>
          [] output_lang = "java" -> <<base \o sfx_pb2_java>>

\* lines 75-86: the loop over the corrected sources, extending target
RECURSIVE ExtendTargets(_, _, _, _)
RECURSIVE ExtendTargets_fdsInLoop(_, _, _, _)

\* the loop with the descriptor-set append indented into its body
ExtendTargets_fdsInLoop(tgt, srcs, e, output_lang) ==
    IF srcs = <<>> THEN tgt
    ELSE ExtendTargets_fdsInLoop(
             (tgt \o Outputs(e, Head(srcs), output_lang))
                 \o (IF e["PROTOCFDSOUT"] # {}
                     THEN <<Val(e, "PROTOCFDSOUT")>> ELSE <<>>),
             Tail(srcs), e, output_lang)

ExtendTargets(tgt, srcs, e, output_lang) ==
    IF srcs = <<>> THEN tgt
    ELSE ExtendTargets(tgt \o Outputs(e, Head(srcs), output_lang),
                       Tail(srcs), e, output_lang)

\* lines 88-91: try: target.append(env['PROTOCFDSOUT']) except KeyError: pass
AppendFds(tgt, e) ==
    IF e["PROTOCFDSOUT"] # {} THEN Append(tgt, Val(e, "PROTOCFDSOUT")) ELSE tgt

\* _ProtocEmitter(target, source, env, output_lang), called from the
\* SConscript whose directory is dir; returns the target and source lists
\* and the environment as the call leaves it
ProtocEmitter(tgt, srcs, e, output_lang, dir) ==
    LET e1 == Prepend(e, "PROTOCPROTOPATH", dir)
        source_with_corrected_path ==
            [i \in 1..Len(srcs) |-> CorrectedPath(dir, srcs[i])]
    IN  [target |-> AppendFds(ExtendTargets(tgt, source_with_corrected_path,
                                            e1, output_lang), e1),
         source |-> source_with_corrected_path,
         env |-> e1]

\* -------------------------------------------------------------- command
RECURSIVE Flatten(_)
Flatten(ss) == IF ss = <<>> THEN <<>> ELSE Head(ss) \o Flatten(Tail(ss))

\* ${SOURCE.dir}: the directory of the first source, "." when it has none
SourceDir(srcs) ==
    IF srcs = <<>> THEN <<>>
    ELSE LET i == RFind(srcs[1], "/")
         IN  IF i = 0 THEN d_top ELSE Take(srcs[1], i - 1)

\* the expansion of a directory variable inside a flag template; a missing
\* variable expands to the empty string
SubstDir(e, srcs, k) ==
    IF e[k] = {} THEN <<>>
    ELSE IF Val(e, k) = SOURCE_dir THEN SourceDir(srcs)
    ELSE Val(e, k)

\* the words one reference of PROTOCCOM_START / PROTOCCOM_END expands to
SubstToken(e, srcs, tok) ==
    CASE tok = "$PROTOC" ->
            IF e["PROTOC"] = {} THEN <<>> ELSE <<Val(e, "PROTOC")>>
      [] tok = "${-I PROTOCPROTOPATH}" ->
            IF e["PROTOCPROTOPATH"] = {} THEN <<>>
            ELSE [i \in 1..Len(Val(e, "PROTOCPROTOPATH")) |->
                      opt_I \o Val(e, "PROTOCPROTOPATH")[i]]
      [] tok = "$PROTOCFLAGS" ->
            IF e["PROTOCFLAGS"] = {} THEN <<>> ELSE Val(e, "PROTOCFLAGS")
      [] tok = "${-o PROTOCFDSOUT}" ->
            IF e["PROTOCFDSOUT"] # {} /\ Val(e, "PROTOCFDSOUT") # <<>>
            THEN <<opt_o \o Val(e, "PROTOCFDSOUT")>>
            ELSE <<>>
      [] tok = "${SOURCES}" -> srcs

\* $PROTOCCOM_START or $PROTOCCOM_END: the references of its value, in order
SubstCom(e, srcs, k) ==
    IF e[k] = {} THEN <<>>
    ELSE Flatten([i \in 1..Len(Val(e, k)) |-> SubstToken(e, srcs, Val(e, k)[i])])

\* $PROTOCCPPFLAG, $PROTOCPYTHONFLAG or $PROTOCJAVAFLAG
SubstFlag(e, srcs, k) ==
    IF e[k] = {} THEN <<>>
    ELSE <<Val(e, k).lit \o SubstDir(e, srcs, Val(e, k).var)>>

FlagKey(output_lang) ==
    CASE output_lang = "cpp" -> "PROTOCCPPFLAG"
      [] output_lang = "python" -> "PROTOCPYTHONFLAG"
      [] output_lang = "java" -> "PROTOCJAVAFLAG"

\* an action string with the language flag in front of $PROTOCCOM_START
ProtocAction_flagFirst(e, srcs, output_lang) ==
    SubstFlag(e, srcs, FlagKey(output_lang))
        \o SubstCom(e, srcs, "PROTOCCOM_START")
        \o SubstCom(e, srcs, "PROTOCCOM_END")

\* '$PROTOCCOM_START $PROTOC<LANG>FLAG $PROTOCCOM_END' with the sources of
\* the invocation
ProtocAction(e, srcs, output_lang) ==
    SubstCom(e, srcs, "PROTOCCOM_START")
        \o SubstFlag(e, srcs, FlagKey(output_lang))
        \o SubstCom(e, srcs, "PROTOCCOM_END")

BuilderName(output_lang) ==
    CASE output_lang = "cpp" -> "ProtocCPP"
      [] output_lang = "python" -> "ProtocPython"
      [] output_lang = "java" -> "ProtocJava"

\* ------------------------------------------------------------ the machine
NoCall == [lang |-> "none", dir |-> <<>>, target |-> <<>>, source |-> <<>>,
           fds |-> {}]

\* a new Environment() that has not loaded the tool
Init ==
    /\ env = [k \in Keys |-> {}]
    /\ builders = [key \in BuilderNames |-> {}]
    /\ prev_env = [k \in Keys |-> {}]
    /\ prev_builders = [key \in BuilderNames |-> {}]
    /\ last_op = "init"
    /\ call = NoCall
    /\ target = <<>>
    /\ source = <<>>
    /\ cmd = <<>>
    /\ nGenerate = 0
    /\ nSetVar = 0
    /\ nEmit = 0

\* generate(env)
generate ==
    /\ nGenerate < MaxGenerate
    /\ \E detected \in DetectResults :
          env' = SeedDefaults(env, detected)
    /\ builders' = RegisterBuilders(builders)
    /\ prev_env' = env
    /\ prev_builders' = builders
    /\ last_op' = "generate"
    /\ nGenerate' = nGenerate + 1
    /\ UNCHANGED <<call, target, source, cmd, nSetVar, nEmit>>

\* the build description assigns a construction variable: env[k] = v
SetVar ==
    /\ nSetVar < MaxSetVar
    /\ \E k \in UserKeys : \E v \in UserValues(k) :
          env' = [env EXCEPT ![k] = {v}]
    /\ prev_env' = env
    /\ prev_builders' = builders
    /\ last_op' = "setvar"
    /\ nSetVar' = nSetVar + 1
    /\ UNCHANGED <<builders, call, target, source, cmd, nGenerate, nEmit>>

\* the build description registers its own builder: env['BUILDERS'][key] = b
SetBuilder ==
    /\ nSetVar < MaxSetVar
    /\ \E key \in BuilderNames : \E b \in UserBuilders :
          builders' = [builders EXCEPT ![key] = {b}]
    /\ prev_env' = env
    /\ prev_builders' = builders
    /\ last_op' = "setbuilder"
    /\ nSetVar' = nSetVar + 1
    /\ UNCHANGED <<env, call, target, source, cmd, nGenerate, nEmit>>

\* env.Protoc<Lang>(target, source): the builder registered by this tool runs
\* its emitter
Emit(output_lang) ==
    /\ nEmit < MaxEmit
    /\ last_op # "command"
    /\ builders[BuilderName(output_lang)]
           = {_builder_dict[BuilderName(output_lang)]}
    /\ env[OutDirKey(output_lang)] # {}
    /\ \E dir \in ScriptDirs, args \in CallArgs :
          LET r == ProtocEmitter(args[1], args[2], env, output_lang, dir)
          IN  /\ target' = r.target
              /\ source' = r.source
              /\ env' = r.env
              /\ call' = [lang |-> output_lang, dir |-> dir, target |-> args[1],
                          source |-> args[2], fds |-> env["PROTOCFDSOUT"]]
    /\ prev_env' = env
    /\ prev_builders' = builders
    /\ last_op' = "emit"
    /\ nEmit' = nEmit + 1
    /\ UNCHANGED <<builders, cmd, nGenerate, nSetVar>>

ProtocCPPEmitter == Emit("cpp")

ProtocPythonEmitter == Emit("python")

ProtocJavaEmitter == Emit("java")

\* the build engine expands the action string of the builder whose emitter
\* ran last, with the sources that emitter returned; commands are expanded
\* once every SConscript has been read, so no emitter runs afterwards
Action(output_lang) ==
    /\ call.lang = output_lang
    /\ last_op # "command"
    /\ cmd' = ProtocAction(env, source, output_lang)
    /\ prev_env' = env
    /\ prev_builders' = builders
    /\ last_op' = "command"
    /\ UNCHANGED <<env, builders, call, target, source,
                   nGenerate, nSetVar, nEmit>>

ProtocCPPAction == Action("cpp")

ProtocPythonAction == Action("python")

ProtocJavaAction == Action("java")

\* installing and configuring the tool
NextInstall ==
    \/ generate
    \/ SetVar
    \/ SetBuilder

SpecInstall == Init /\ [][NextInstall]_vars

\* the environment generate leaves in a new Environment()
DefaultEnv == SeedDefaults([k \in Keys |-> {}], {})

\* e with the build description's own value assigned to each key of ks
WithValues(e, ks) ==
    [k \in Keys |-> IF k \in ks THEN {CHOOSE v \in UserValues(k) : TRUE}
                     ELSE e[k]]

ValueKeys == {"PROTOC", "PROTOCFLAGS", "PROTOCPROTOPATH", "PROTOCOUTDIR",
              "PROTOCPYTHONOUTDIR", "PROTOCJAVAOUTDIR"}

TemplateKeys == {"PROTOCJAVAFLAG", "PROTOCPYTHONFLAG", "PROTOCCPPFLAG"}

\* the environments the builders are called with: the defaults, the build
\* description's values, or its values and its flag templates; each without
\* PROTOCFDSOUT, with an empty one, or with a descriptor-set path
BuildEnvs ==
    {[e EXCEPT !["PROTOCFDSOUT"] = f] :
        e \in {DefaultEnv, WithValues(DefaultEnv, ValueKeys),
                WithValues(DefaultEnv, ValueKeys \cup TemplateKeys)},
        f \in {{}, {<<>>}, {fds_path}}}

\* an environment with the tool installed and configured, before the first
\* builder call
InitBuild ==
    /\ env \in BuildEnvs
    /\ builders = RegisterBuilders([key \in BuilderNames |-> {}])
    /\ prev_env = env
    /\ prev_builders = builders
    /\ last_op = "init"
    /\ call = NoCall
    /\ target = <<>>
    /\ source = <<>>
    /\ cmd = <<>>
    /\ nGenerate = 1
    /\ nSetVar = 0
    /\ nEmit = 0

\* calling the builders and expanding their commands
NextBuild ==
    \/ ProtocCPPEmitter
    \/ ProtocPythonEmitter
    \/ ProtocJavaEmitter
    \/ ProtocCPPAction
    \/ ProtocPythonAction
    \/ ProtocJavaAction

SpecBuild == InitBuild /\ [][NextBuild]_vars

\* ======================================================== properties
\* the number of targets the emitter adds per source file
PerSource(output_lang) == IF output_lang = "cpp" THEN 2 ELSE 1

\* the targets the last emitter call added to the list it was given
Added == Drop(target, Len(call.target))

\* the number of positions of list l that hold x
Count(l, x) == Cardinality({i \in 1..Len(l) : l[i] = x})

\* a resolved source path is relative and has the extension .proto
IsRelativeProto(p) ==
    /\ ~StartsWith(p, os_sep)
    /\ Len(p) > Len(sfx_proto)
    /\ EndsWith(p, sfx_proto)
    /\ p[Len(p) - Len(sfx_proto)] # "/"

\* the stem S of a path S.proto
Stem(p) == Take(p, Len(p) - Len(sfx_proto))

\* the configuration keys the build description may have set before generate
C2Keys == {"PROTOC", "PROTOCFLAGS", "PROTOCPROTOPATH", "PROTOCOUTDIR",
           "PROTOCPYTHONOUTDIR", "PROTOCJAVAOUTDIR", "PROTOCJAVAFLAG",
           "PROTOCPYTHONFLAG", "PROTOCCPPFLAG", "PROTOCSRCSUFFIX"}

\* C1: generate leaves every builder that is already registered under one of
\* the three names as it is, on the first call and on every later call, so a
\* name keeps the builder registered first (the caller's own one included).
C1_FirstWins ==
    last_op = "generate" =>
        \A key \in BuilderNames :
            prev_builders[key] # {} => builders[key] = prev_builders[key]

C1_Witness ==
    /\ last_op = "generate"
    /\ nGenerate = 2
    /\ prev_builders["ProtocCPP"] = {"CustomBuilder"}
    /\ builders["ProtocCPP"] = {"CustomBuilder"}
    /\ builders["ProtocJava"] = {"ProtocJavaBuilder"}

\* C2, as claimed: every listed configuration key the caller set before
\* generate(env) has the same value after the call.
C2_KeepsCallerValues ==
    last_op = "generate" =>
        \A k \in C2Keys : prev_env[k] # {} => env[k] = prev_env[k]

\* C2, amended: generate(env) assigns each listed configuration key its
\* default value whether or not the caller set the key before, on a first
\* install and on every repeated one; only a key generate does not assign
\* (PROTOCFDSOUT) keeps the caller's value.
C2_AssignsDefaults ==
    last_op = "generate" =>
        /\ env["PROTOC"] = {protocs}
        /\ env["PROTOCFLAGS"] = {<<>>}
        /\ env["PROTOCPROTOPATH"] = {<<>>}
        /\ env["PROTOCOUTDIR"] = {SOURCE_dir}
        /\ env["PROTOCPYTHONOUTDIR"] = {dir_python}
        /\ env["PROTOCJAVAOUTDIR"] = {dir_java}
        /\ env["PROTOCJAVAFLAG"] = {[lit |-> java_out, var |-> "PROTOCJAVAOUTDIR"]}
        /\ env["PROTOCPYTHONFLAG"] = {[lit |-> python_out, var |-> "PROTOCPYTHONOUTDIR"]}
        /\ env["PROTOCCPPFLAG"] = {[lit |-> cpp_out, var |-> "PROTOCOUTDIR"]}
        /\ env["PROTOCSRCSUFFIX"] = {sfx_proto}
        /\ env["PROTOCFDSOUT"] = prev_env["PROTOCFDSOUT"]

C2_Witness ==
    /\ last_op = "generate"
    /\ prev_env["PROTOCOUTDIR"] = {dir_gen}
    /\ env["PROTOCOUTDIR"] = {SOURCE_dir}

\* C3, as claimed: an emitter invocation leaves every configuration value of
\* the environment, PROTOCPROTOPATH included, as it was before the call.
C3_EmitterWritesNothing ==
    last_op = "emit" => env = prev_env

\* C3, amended: an emitter invocation changes exactly one configuration
\* value: it puts the calling SConscript's directory in front of the
\* PROTOCPROTOPATH list, also when the list already holds that directory;
\* every other configuration value is as it was before the call.
C3_EmitterPrependsDir ==
    last_op = "emit" =>
        /\ \A k \in Keys \ {"PROTOCPROTOPATH"} : env[k] = prev_env[k]
        /\ prev_env["PROTOCPROTOPATH"] # {}
        /\ env["PROTOCPROTOPATH"]
               = {<<call.dir>> \o Val(prev_env, "PROTOCPROTOPATH")}

C3_Witness ==
    /\ last_op = "emit"
    /\ nEmit = 2
    /\ Len(Val(env, "PROTOCPROTOPATH")) >= 2
    /\ Val(env, "PROTOCPROTOPATH")[1] = Val(env, "PROTOCPROTOPATH")[2]

\* C4: the cpp emitter, called with an empty target list and PROTOCFDSOUT not
\* set, returns for resolved relative sources S1.proto, S2.proto, ... exactly
\* the targets dir/S1.pb.cc, dir/S1.pb.h, dir/S2.pb.cc, ... in that order,
\* dir being the value of PROTOCOUTDIR.
C4_CppOutputs ==
    (/\ last_op = "emit"
     /\ call.lang = "cpp"
     /\ call.target = <<>>
     /\ call.fds = {}
     /\ \A i \in 1..Len(source) : IsRelativeProto(source[i]))
    => /\ Len(target) = 2 * Len(source)
       /\ \A i \in 1..Len(source) :
             LET dir == Val(prev_env, "PROTOCOUTDIR")
             IN  /\ target[2 * i - 1]
                       = ((dir \o os_sep) \o Stem(source[i])) \o sfx_pb_cc
                 /\ target[2 * i]
                       = ((dir \o os_sep) \o Stem(source[i])) \o sfx_pb_h

\* foo/bar.proto called from foo with PROTOCOUTDIR gen: gen/bar.pb.cc, gen/bar.pb.h
C4_Witness ==
    /\ last_op = "emit"
    /\ call.lang = "cpp"
    /\ call.dir = d_foo
    /\ call.source = <<p_foo_bar>>
    /\ call.fds = {}
    /\ env["PROTOCOUTDIR"] = {dir_gen}
    /\ target = <<(dir_gen \o os_sep) \o <<"b", "a", "r">> \o sfx_pb_cc,
                  (dir_gen \o os_sep) \o <<"b", "a", "r">> \o sfx_pb_h>>

\* C5: with an empty target list and PROTOCFDSOUT not set, the python emitter
\* returns exactly one target dir/S_pb2.py per resolved relative source
\* S.proto, dir being PROTOCPYTHONOUTDIR, and the java emitter exactly one
\* target dir/S_pb2.java, dir being PROTOCJAVAOUTDIR.
C5_PythonJavaOutputs ==
    (/\ last_op = "emit"
     /\ call.lang \in {"python", "java"}
     /\ call.target = <<>>
     /\ call.fds = {}
     /\ \A i \in 1..Len(source) : IsRelativeProto(source[i]))
    => /\ Len(target) = Len(source)
       /\ \A i \in 1..Len(source) :
             IF call.lang = "python"
             THEN target[i] = ((Val(prev_env, "PROTOCPYTHONOUTDIR") \o os_sep)
                                  \o Stem(source[i])) \o sfx_pb2_py
             ELSE target[i] = ((Val(prev_env, "PROTOCJAVAOUTDIR") \o os_sep)
                                  \o Stem(source[i])) \o sfx_pb2_java

C5_Witness ==
    /\ last_op = "emit"
    /\ call.lang = "java"
    /\ call.dir = d_foo
    /\ call.source = <<p_foo_sub_c>>
    /\ call.fds = {}
    /\ target = <<(dir_java \o os_sep) \o <<"s", "u", "b", "/", "c">>
                      \o sfx_pb2_java>>

\* C6: when PROTOCFDSOUT is set, every emitter invocation, of any language,
\* with any number of sources and after any earlier invocation, returns a
\* target list that holds the value of PROTOCFDSOUT exactly once, as its last
\* element, after the targets predicted for the sources; when PROTOCFDSOUT is
\* not set the emitter adds the predicted targets and nothing else.
C6_DescriptorSetOnceLast ==
    last_op = "emit" =>
        IF call.fds # {}
        THEN /\ Len(Added) = PerSource(call.lang) * Len(source) + 1
             /\ target[Len(target)] = Val(prev_env, "PROTOCFDSOUT")
             /\ Count(target, Val(prev_env, "PROTOCFDSOUT")) = 1
        ELSE Len(Added) = PerSource(call.lang) * Len(source)

C6_Witness ==
    /\ last_op = "emit"
    /\ nEmit = 2
    /\ call.lang = "python"
    /\ call.fds = {fds_path}
    /\ Len(source) = 2
    /\ Len(target) = 3
    /\ target[3] = fds_path

\* C7: a source path dir/rest, dir being the calling SConscript's directory,
\* is returned by the emitter as rest; a source path that shares no leading
\* character with dir is returned unchanged.
C7_StripsDirAndSeparator ==
    last_op = "emit" =>
        /\ Len(source) = Len(call.source)
        /\ \A i \in 1..Len(call.source) :
              LET s == call.source[i]
                  d == call.dir
              IN  /\ StartsWith(s, d \o os_sep)
                        => source[i] = Drop(s, Len(d) + 1)
                  /\ (d = <<>> \/ s = <<>> \/ d[1] # s[1]) => source[i] = s

C7_Witness ==
    /\ last_op = "emit"
    /\ call.dir = d_foo
    /\ call.source = <<p_foo_sub_c, p_foo_bar>>
    /\ source = <<<<"s", "u", "b", "/", "c">> \o sfx_proto,
                  <<"b", "a", "r">> \o sfx_proto>>

\* C8: the path the emitter returns for a source is the source path itself or
\* the source path without some of its leading components; it is never cut
\* inside a component (foobar/baz.proto called from foo is not cut to
\* ar/baz.proto).
C8_NoCrossStrip ==
    last_op = "emit" =>
        \A i \in 1..Len(call.source) :
            LET s == call.source[i]
            IN  \/ source[i] = s
                \/ \E j \in 1..Len(s) : s[j] = "/" /\ source[i] = Drop(s, j)

\* C9: with the flag template generate seeds, the command of each language
\* is: the executable; -I<dir> for each PROTOCPROTOPATH entry in list order;
\* the PROTOCFLAGS words; -o<PROTOCFDSOUT> exactly when PROTOCFDSOUT is set to
\* a non-empty path; --cpp_out=, --python_out= or --java_out= followed by the
\* language's output directory; then the sources the emitter returned.
C9_CommandOrder ==
    (/\ last_op = "command"
     /\ env[FlagKey(call.lang)] = {Default(FlagKey(call.lang), {})})
    => LET path == Val(env, "PROTOCPROTOPATH")
           flags == Val(env, "PROTOCFLAGS")
           n == Len(path)
           m == Len(flags)
           hasFds == env["PROTOCFDSOUT"] \notin {{}, {<<>>}}
           o == IF hasFds THEN 1 ELSE 0
           outdir == Val(env, OutDirKey(call.lang))
           dir == IF outdir = SOURCE_dir THEN SourceDir(source) ELSE outdir
           lit == CASE call.lang = "cpp" -> cpp_out
                    [] call.lang = "python" -> python_out
                    [] call.lang = "java" -> java_out
       IN  /\ Len(cmd) = 2 + n + m + o + Len(source)
           /\ cmd[1] = Val(env, "PROTOC")
           /\ \A i \in 1..n : cmd[1 + i] = opt_I \o path[i]
           /\ \A j \in 1..m : cmd[1 + n + j] = flags[j]
           /\ hasFds => cmd[2 + n + m] = opt_o \o Val(env, "PROTOCFDSOUT")
           /\ ~hasFds => \A i \in 1..Len(cmd) : ~StartsWith(cmd[i], opt_o)
           /\ cmd[2 + n + m + o] = lit \o dir
           /\ \A k \in 1..Len(source) : cmd[2 + n + m + o + k] = source[k]

\* ProtocCPP with PROTOCOUTDIR gen, a descriptor set, two sources and three
\* include directories (one of the build description, one per emitter call)
C9_Witness ==
    /\ last_op = "command"
    /\ call.lang = "cpp"
    /\ env["PROTOCCPPFLAG"] = {PROTOCCPPFLAG}
    /\ env["PROTOCOUTDIR"] = {dir_gen}
    /\ env["PROTOCFDSOUT"] = {fds_path}
    /\ Len(Val(env, "PROTOCPROTOPATH")) = 3
    /\ Len(source) = 2
    /\ \E i \in 1..Len(cmd) : cmd[i] = cpp_out \o dir_gen

\* C10: for every value of PROTOCFDSOUT (absent, empty, a path), the emitter
\* adds a descriptor-set target exactly when the command built from the same
\* configuration has a -o flag.
C10_OutputsAgreeWithCommand ==
    (last_op = "command" /\ call.fds = env["PROTOCFDSOUT"]) =>
        ((Len(Added) > PerSource(call.lang) * Len(source))
            <=> (\E i \in 1..Len(cmd) : StartsWith(cmd[i], opt_o)))

====
